---- MODULE Spec2Model ----
(***************************************************************************)
(* Ranking / weight-tuning engine of the K-recipe RAG pipeline.            *)
(*                                                                         *)
(*   src/rag_pipeline.py : parse helpers, score_doc, suggest_menus         *)
(*   src/optim.py        : AutoRanker (score, _objective, fit)             *)
(*                                                                         *)
(* Representation.                                                         *)
(*  - A Python str is a sequence of one-character strings.  Hangul         *)
(*    syllables are written by their romanisation, one element each:       *)
(*    "bun" is U+BD84, <<"cho","geup">> is the level label of two          *)
(*    syllables, and so on.                                                *)
(*  - A Python value is a tagged record (None, int, str); a metadata dict  *)
(*    is a record whose absent keys hold Missing.                          *)
(*  - Floats are exact fixed-point integers.  score_doc's result is in     *)
(*    units of 1/10000; AutoRanker weights are in units of 1/2 and its     *)
(*    score in units of 1/4000, with log1p tabulated in thousandths.       *)
(*  - A raised exception is a record [ok |-> FALSE, err |-> <type>].       *)
(***************************************************************************)
EXTENDS Integers, Sequences, FiniteSets, TLC

VARIABLES
    docs,                  \* the candidate documents retriever.invoke returned
    user_ings, style_hint, \* the query context
    mins,                  \* the minutes each document's cook-time label denotes
    params,                \* AutoRanker.params
    op, result,            \* the last call and what it returned or raised
    pc,                    \* where AutoRanker.fit stands
    population, population_energies, nit, candidate, \* the optimizer's state
    x                      \* the vector last handed to _objective by the optimizer

ctx == <<docs, user_ings, style_hint, mins>>
optvars == <<pc, population, population_energies, nit, candidate, x>>
vars == <<ctx, params, op, result, optvars>>

(***************************************************************************)
(* Python values                                                           *)
(***************************************************************************)
NoneV == [t |-> "None"]
Missing == [t |-> "missing"]
IntV(n) == [t |-> "int", v |-> n]
StrV(s) == [t |-> "str", v |-> s]

Ok(v) == [ok |-> TRUE, val |-> v]
Raise(e) == [ok |-> FALSE, err |-> e]

DigitChars == <<"0", "1", "2", "3", "4", "5", "6", "7", "8", "9">>
IsDigit(c) == \E i \in 1..10 : DigitChars[i] = c
DigitVal(c) == (CHOOSE i \in 1..10 : DigitChars[i] = c) - 1
IsSpace(c) == c \in {" ", "\n", "\t"}

RECURSIVE Digits(_)
Digits(n) == IF n < 10 THEN <<DigitChars[n + 1]>>
             ELSE Digits(n \div 10) \o <<DigitChars[(n % 10) + 1]>>

RECURSIVE DecimalValue(_)
DecimalValue(s) == IF s = <<>> THEN 0
                   ELSE 10 * DecimalValue(SubSeq(s, 1, Len(s) - 1)) + DigitVal(s[Len(s)])

\* bool(v)
Truthy(v) == CASE v.t = "None" -> FALSE
               [] v.t = "int" -> v.v # 0
               [] v.t = "str" -> v.v # <<>>

\* v or d
OrElse(v, d) == IF Truthy(v) THEN v ELSE d

\* s.strip()
RECURSIVE LStrip(_)
LStrip(s) == IF s # <<>> /\ IsSpace(s[1]) THEN LStrip(Tail(s)) ELSE s
RECURSIVE RStrip(_)
RStrip(s) == IF s # <<>> /\ IsSpace(s[Len(s)]) THEN RStrip(SubSeq(s, 1, Len(s) - 1)) ELSE s
Strip(s) == RStrip(LStrip(s))

\* sub in s
Contains(sub, s) == \E i \in 0..(Len(s) - Len(sub)) : SubSeq(s, i + 1, i + Len(sub)) = sub

\* str(v)
PyStr(v) == CASE v.t = "str" -> v.v
              [] v.t = "None" -> <<"N", "o", "n", "e">>
              [] v.t = "int" -> IF v.v < 0 THEN <<"-">> \o Digits(0 - v.v) ELSE Digits(v.v)

\* int(v)
PyInt(v) == CASE v.t = "int" -> Ok(v.v)
              [] v.t = "None" -> Raise("TypeError")
              [] v.t = "str" ->
                   LET s == Strip(v.v)
                       neg == s # <<>> /\ s[1] = "-"
                       body == IF s # <<>> /\ s[1] \in {"-", "+"} THEN Tail(s) ELSE s
                   IN IF body # <<>> /\ \A i \in 1..Len(body) : IsDigit(body[i])
                      THEN Ok(IF neg THEN 0 - DecimalValue(body) ELSE DecimalValue(body))
                      ELSE Raise("ValueError")

\* doc.metadata or {}
EmptyDict == [t |-> "dict", level |-> Missing, views |-> Missing, time |-> Missing,
              method |-> Missing, situation |-> Missing, menu |-> Missing,
              title |-> Missing]
MetadataOrEmpty(doc) == IF doc.metadata.t = "None" THEN EmptyDict ELSE doc.metadata

\* md.get(key, default)
Get(md, key, default) == IF md[key].t = "missing" THEN default ELSE md[key]

\* doc.page_content or ""
TextOf(doc) == OrElse(doc.page_content, StrV(<<>>)).v

Min(a, b) == IF a <= b THEN a ELSE b

(***************************************************************************)
(* String constants of the two source files                                *)
(***************************************************************************)
Beginner == {<<"cho", "geup">>, <<"a", "mu", "na">>, <<"swi", "um">>, <<"E", "a", "s", "y">>}
Intermediate == <<"jung", "geup">>
Advanced == <<"go", "geup">>
NoPreference == <<"sang", "gwan", "eops", "eum">>
Jeongbo == <<"jeong", "bo">>
Bun == "bun"

(***************************************************************************)
(* rag_pipeline.py                                                         *)
(***************************************************************************)
\* normalize_level(level): (level or "").strip()
normalize_level(level) ==
    IF ~Truthy(level) THEN Ok(<<>>)
    ELSE IF level.t = "str" THEN Ok(Strip(level.v))
    ELSE Raise("AttributeError")

\* re.search(r"(\d+)\s*bun", t): the leftmost start from which a maximal run of
\* digits, then optional whitespace, then the syllable follows.
RECURSIVE DigitRunEnd(_, _)
DigitRunEnd(t, i) == IF i <= Len(t) /\ IsDigit(t[i]) THEN DigitRunEnd(t, i + 1) ELSE i
RECURSIVE SpaceRunEnd(_, _)
SpaceRunEnd(t, i) == IF i <= Len(t) /\ IsSpace(t[i]) THEN SpaceRunEnd(t, i + 1) ELSE i
MatchAt(t, i) ==
    /\ IsDigit(t[i])
    /\ LET j == SpaceRunEnd(t, DigitRunEnd(t, i))
       IN j <= Len(t) /\ t[j] = Bun
SearchMinutes(t) ==
    LET starts == {i \in 1..Len(t) : MatchAt(t, i)}
    IN IF starts = {} THEN NoneV
       ELSE LET i == CHOOSE a \in starts : \A b \in starts : a <= b
            IN IntV(DecimalValue(SubSeq(t, i, DigitRunEnd(t, i) - 1)))

NoInfoMinutes == 9999

time_to_minutes(time_str) ==
    IF ~Truthy(time_str) THEN Ok(NoInfoMinutes)
    ELSE IF time_str.t # "str" THEN Raise("AttributeError")
    ELSE LET t == Strip(time_str.v)
             m == SearchMinutes(t)
         IN IF Contains(Jeongbo, t) THEN Ok(NoInfoMinutes)
            ELSE IF m.t = "int" THEN Ok(m.v)
            ELSE Ok(NoInfoMinutes)

\* score_doc lines 103-110, in units of 1/10000
time_penalty(cook_time) ==
    IF cook_time <= 30 THEN 0
    ELSE IF cook_time <= 60 THEN 5000
    ELSE 15000

\* score_doc lines 84-91
doc_level_score(level) ==
    IF level \in Beginner THEN 5
    ELSE IF level = Intermediate THEN 2
    ELSE 0

\* score_doc lines 79-82
RECURSIVE doc_ing_hit(_, _)
doc_ing_hit(ings, text) ==
    IF ings = <<>> THEN 0
    ELSE (IF Head(ings) # <<>> /\ Contains(Head(ings), text) THEN 1 ELSE 0)
         + doc_ing_hit(Tail(ings), text)

\* score_doc lines 97-101, in units of 1/10000
doc_style_score(md, text, hint) ==
    IF hint # <<>> /\ hint # NoPreference
       /\ (\/ Contains(hint, text)
           \/ Contains(hint, PyStr(Get(md, "situation", StrV(<<>>))))
           \/ Contains(hint, PyStr(Get(md, "method", StrV(<<>>)))))
    THEN 15000 ELSE 0

\* score_doc lines 78-122 once level, views and cook_time are computed:
\* final (in units of 1/10000) and the debug fields
ScoreDocOf(md, text, level, views, cook_time, ings, hint) ==
    IF ~level.ok THEN level
    ELSE IF ~views.ok THEN views
    ELSE IF ~cook_time.ok THEN cook_time
    ELSE Ok([final |-> doc_ing_hit(ings, text) * 30000
                       + doc_level_score(level.val) * 15000
                       + Min(50000, 2 * views.val)
                       + doc_style_score(md, text, hint)
                       - time_penalty(cook_time.val),
             ing_hit |-> doc_ing_hit(ings, text), level |-> level.val,
             views |-> views.val, cook_time |-> cook_time.val])

ScoreDocOnMetadata(md, text, ings, hint) ==
    ScoreDocOf(md, text,
               normalize_level(Get(md, "level", StrV(<<>>))),
               PyInt(OrElse(Get(md, "views", IntV(0)), IntV(0))),
               time_to_minutes(Get(md, "time", StrV(<<>>))),
               ings, hint)

\* score_doc(doc, user_ings, style_hint) -> (final, debug)
score_doc(doc, ings, hint) == ScoreDocOnMetadata(MetadataOrEmpty(doc), TextOf(doc), ings, hint)

(***************************************************************************)
(* sorted(..., key=..., reverse=True) and list.sort(key=..., reverse=True) *)
(* CPython reverses the list, sorts it stably in ascending key order and   *)
(* reverses it again.  The sort works on the positions 1..n of the input,  *)
(* key[i] being the key computed once for position i.                      *)
(***************************************************************************)
Reverse(s) == [i \in 1..Len(s) |-> s[Len(s) + 1 - i]]

Positions(n) == [i \in 1..n |-> i]

\* e goes after every element whose key is <= its own
RECURSIVE InsertStable(_, _, _)
InsertStable(sorted, e, key) ==
    IF sorted = <<>> THEN <<e>>
    ELSE IF key[Head(sorted)] <= key[e]
         THEN <<Head(sorted)>> \o InsertStable(Tail(sorted), e, key)
         ELSE <<e>> \o sorted

RECURSIVE StableSortAsc(_, _)
StableSortAsc(s, key) ==
    IF s = <<>> THEN <<>>
    ELSE InsertStable(StableSortAsc(SubSeq(s, 1, Len(s) - 1), key), s[Len(s)], key)

\* a sort that skips the first reversal: ties come out in reverse input order
SortAscThenReverse(key) == Reverse(StableSortAsc(Positions(Len(key)), key))

\* the positions of the input in the order sorted(..., reverse=True) gives
sorted_reverse(key) == Reverse(StableSortAsc(Reverse(Positions(Len(key))), key))

\* the top-K size: scored[:5], ranked[:5]
TopK == 5

Prefix(s, k) == SubSeq(s, 1, Min(k, Len(s)))

\* the first position whose result is a raised exception, 0 if none
FirstRaise(rs) ==
    LET bad == {i \in 1..Len(rs) : ~rs[i].ok}
    IN IF bad = {} THEN 0 ELSE CHOOSE a \in bad : \A b \in bad : a <= b

(***************************************************************************)
(* rag_pipeline.py: suggest_menus                                          *)
(***************************************************************************)
raw_title_of(md) ==
    OrElse(OrElse(Get(md, "menu", StrV(<<>>)), Get(md, "title", StrV(<<>>))),
           StrV(<<"U", "n", "k", "n", "o", "w", "n">>))

meme_of(dbg) ==
    IF dbg.ing_hit >= 2 THEN "ingredients" ELSE IF dbg.views >= 5000 THEN "popular" ELSE "easy"

\* suggest_menus lines 170-217: sort the scored list, cut it to five, build
\* the menu cards.  ranked and top hold input positions.
MenusOf(ds, scored, ranked, top) ==
    [ok |-> TRUE, key |-> [i \in 1..Len(ds) |-> scored[i].val.final],
     ranked |-> ranked, top |-> top,
     menus |-> [p \in 1..Len(top) |->
                  [raw_title |-> raw_title_of(MetadataOrEmpty(ds[top[p]])),
                   meme |-> meme_of(scored[top[p]].val),
                   debug |-> scored[top[p]].val]]]

SortedScored(ds, scored, ranked) == MenusOf(ds, scored, ranked, Prefix(ranked, TopK))

\* suggest_menus lines 165-217 on the scored list
SuggestFrom(ds, scored) ==
    IF FirstRaise(scored) # 0 THEN Raise(scored[FirstRaise(scored)].err)
    ELSE SortedScored(ds, scored,
                      sorted_reverse([i \in 1..Len(ds) |-> scored[i].val.final]))

\* suggest_menus from the retriever's candidates on
suggest_menus(ds, ings, hint) ==
    SuggestFrom(ds, [i \in 1..Len(ds) |-> score_doc(ds[i], ings, hint)])

(***************************************************************************)
(* optim.py: AutoRanker                                                    *)
(***************************************************************************)
\* self.params after __init__: [2.0, 1.0, 0.5, 1.0, 1.0], in halves
InitialParams == <<4, 2, 1, 2, 2>>

\* _level_score, in halves
level_score_of(level) ==
    IF level.t = "str" /\ level.v \in Beginner THEN 2
    ELSE IF level.t = "str" /\ level.v = Intermediate THEN 1
    ELSE 0

\* _parse_time
parse_time(t) ==
    IF Contains(<<"3", "0">>, PyStr(t)) THEN 0
    ELSE IF Contains(<<"6", "0">>, PyStr(t)) THEN 1
    ELSE 2

\* np.log1p(views) in thousandths, rounded, on the view counts of the model
Log1pMilli(views) ==
    CASE views = 0 -> 0
      [] views = 500 -> 6217
      [] views = 5000 -> 8517
      [] views = 10000 -> 9210
      [] views = 30000 -> 10309

\* score line 31
RECURSIVE ranker_ing_hit(_, _)
ranker_ing_hit(ings, text) ==
    IF ings = <<>> THEN 0
    ELSE (IF Contains(Strip(Head(ings)), text) THEN 1 ELSE 0)
         + ranker_ing_hit(Tail(ings), text)

\* score lines 35-39 and _objective lines 72-78
style_match_of(md, text, hint) ==
    IF hint # <<>>
       /\ (\/ Contains(hint, text)
           \/ Contains(hint, PyStr(Get(md, "method", StrV(<<>>))))
           \/ Contains(hint, PyStr(Get(md, "situation", StrV(<<>>)))))
    THEN 1 ELSE 0

\* the same sum with the time penalty added instead of subtracted
LinearScorePenaltyAdded(w, ing_hit, level_score, views, style_score, time_pen) ==
    IF ~views.ok THEN views
    ELSE Ok(w[1] * ing_hit * 2000
            + w[2] * level_score * 1000
            + w[3] * Log1pMilli(views.val) * 2
            + w[4] * style_score * 2000
            + w[5] * time_pen * 2000)

\* score lines 43-51 on the features, in units of 1/4000
LinearScore(w, ing_hit, level_score, views, style_score, time_pen) ==
    IF ~views.ok THEN views
    ELSE Ok(w[1] * ing_hit * 2000
            + w[2] * level_score * 1000
            + w[3] * Log1pMilli(views.val) * 2
            + w[4] * style_score * 2000
            - w[5] * time_pen * 2000)

ScoreOnMetadata(w, md, text, ings, hint) ==
    LinearScore(w,
                ranker_ing_hit(ings, text),
                level_score_of(Get(md, "level", StrV(<<>>))),
                PyInt(Get(md, "views", IntV(0))),
                style_match_of(md, text, hint),
                parse_time(Get(md, "time", StrV(<<>>))))

\* AutoRanker.score with self.params = w
score(w, doc, ings, hint) == ScoreOnMetadata(w, MetadataOrEmpty(doc), TextOf(doc), ings, hint)

\* _objective line 66
RECURSIVE objective_ing_count(_, _)
objective_ing_count(ings, text) ==
    IF ings = <<>> THEN 0
    ELSE (IF Contains(Head(ings), text) THEN 1 ELSE 0)
         + objective_ing_count(Tail(ings), text)

\* d.metadata.get("views", 0) and int() of it, for one item of top
objective_views(doc) ==
    IF doc.metadata.t = "None" THEN Raise("AttributeError")
    ELSE PyInt(Get(doc.metadata, "views", IntV(0)))

RECURSIVE SumSeq(_)
SumSeq(s) == IF s = <<>> THEN 0 ELSE Head(s) + SumSeq(Tail(s))

\* np.mean of a list of integers: NaN for the empty list, else the exact
\* quotient sum/n
Mean(s) == IF s = <<>> THEN [nan |-> TRUE, sum |-> 0, n |-> 0]
           ELSE [nan |-> FALSE, sum |-> SumSeq(s), n |-> Len(s)]

\* the list sorted by the keys of `scores`, or the exception of the first
\* position whose key computation raised
RankingOf(scores) ==
    IF FirstRaise(scores) # 0 THEN Raise(scores[FirstRaise(scores)].err)
    ELSE [ok |-> TRUE, key |-> [i \in 1..Len(scores) |-> scores[i].val],
          ranked |-> sorted_reverse([i \in 1..Len(scores) |-> scores[i].val])]

\* sorted(docs, key=lambda d: self.score(d, user_ings, style_hint), reverse=True)
\* with self.params = w: the input positions in ranked order
ranked_by_score(w, ds, ings, hint) ==
    RankingOf([i \in 1..Len(ds) |-> score(w, ds[i], ings, hint)])

\* _objective lines 83-90, for one item of top
is_beginner(md) == IF level_score_of(Get(md, "level", NoneV)) = 2 THEN 1 ELSE 0

\* _objective lines 92-99 from the four means: -final_score, NaN when a mean
\* is NaN, else given times 60 (every mean has n in 1..5)
FinalOf(r, top, views, ing_match, style_match, level_match) ==
    [ok |-> TRUE, key |-> r.key, ranked |-> r.ranked, top |-> top,
     views |-> views, ing_match |-> ing_match,
     style_match |-> style_match, level_match |-> level_match,
     nan |-> views.nan,
     val |-> IF views.nan THEN 0
             ELSE 0 - (60 \div views.n)
                      * (views.sum + 2000 * ing_match.sum
                         + 1000 * style_match.sum + 500 * level_match.sum)]

\* _objective lines 63-99 on the top list
FitnessOf(r, top, vs, ds, ings, hint) ==
    IF FirstRaise(vs) # 0 THEN Raise(vs[FirstRaise(vs)].err)
    ELSE FinalOf(r, top,
                 Mean([p \in 1..Len(top) |-> vs[p].val]),
                 Mean([p \in 1..Len(top) |-> objective_ing_count(ings, TextOf(ds[top[p]]))]),
                 Mean([p \in 1..Len(top) |->
                         style_match_of(ds[top[p]].metadata, TextOf(ds[top[p]]), hint)]),
                 Mean([p \in 1..Len(top) |-> is_beginner(ds[top[p]].metadata)]))

\* _objective lines 61-99 on the ranked list
ObjectiveOf(r, top, ds, ings, hint) ==
    IF ~r.ok THEN r
    ELSE FitnessOf(r, top, [p \in 1..Len(top) |-> objective_views(ds[top[p]])],
                   ds, ings, hint)

TopOf(r) == IF r.ok THEN Prefix(r.ranked, TopK) ELSE <<>>

ObjectiveOfRanking(r, ds, ings, hint) == ObjectiveOf(r, TopOf(r), ds, ings, hint)

\* _objective after self.params = w
objective(w, ds, ings, hint) ==
    ObjectiveOfRanking(ranked_by_score(w, ds, ings, hint), ds, ings, hint)

(***************************************************************************)
(* Inputs: the retriever's documents and the query context                 *)
(***************************************************************************)
Tofu == <<"t", "o", "f", "u">>
Onion == <<"o", "n", "i", "o", "n">>
Rice == <<"r", "i", "c", "e">>
Snack == <<"gan", "sik">>
Many == <<"m", "a", "n", "y">>

\* the data set's cook-time label for "within m minutes"
Within(m) == Digits(m) \o <<Bun, "i", "nae">>

Document(content, level, views, time, method, menu) ==
    [page_content |-> StrV(content),
     metadata |-> [t |-> "dict", level |-> level, views |-> views, time |-> time,
                   method |-> method, situation |-> Missing, menu |-> StrV(<<menu>>),
                   title |-> Missing]]

DocA == Document(Tofu \o <<" ">> \o Onion, StrV(<<"cho", "geup">>), IntV(10000),
                 StrV(Within(30)), Missing, "A")
DocB == Document(Rice, StrV(Advanced), IntV(500), StrV(Within(120)), StrV(Snack), "B")
DocBad == Document(Tofu, StrV(Intermediate), StrV(Many), StrV(Within(60)), Missing, "X")

Catalogue == {DocA, DocB, DocBad}

\* the longest candidate list the retriever returns
MaxDocs == 6

SeqUpTo(S, n) == UNION {[1..k -> S] : k \in 0..n}

IngredientLists == {<<Tofu>>, <<Tofu, Onion>>}
StyleHints == {<<>>, Snack}

\* weight vectors handed to _objective besides the initial one
CandidateParams == {InitialParams, <<0, 0, 0, 0, 0>>}

OptimizerIdle ==
    /\ pc = "idle" /\ population = <<>> /\ population_energies = <<>>
    /\ nit = 0 /\ candidate = 0 /\ x = <<>>

(***************************************************************************)
(* Ranking and objective evaluation on one candidate list                  *)
(***************************************************************************)
Init ==
    /\ docs \in SeqUpTo(Catalogue, MaxDocs)
    /\ user_ings \in IngredientLists
    /\ style_hint \in StyleHints
    /\ mins = <<>>
    /\ params = InitialParams
    /\ op = "none"
    /\ result = Raise("none")
    /\ OptimizerIdle

\* suggest_menus(user_story, ingredients, style_hint), docs being what
\* retriever.invoke returned
SuggestMenus ==
    /\ op' = "suggest_menus"
    /\ result' = suggest_menus(docs, user_ings, style_hint)
    /\ UNCHANGED <<ctx, params, optvars>>

\* ranker.score(docs[i], user_ings, style_hint)
Score ==
    /\ \E i \in 1..Len(docs) :
          result' = score(params, docs[i], user_ings, style_hint)
    /\ op' = "score"
    /\ UNCHANGED <<ctx, params, optvars>>

\* ranker._objective(w, docs, user_ings, style_hint)
Objective ==
    /\ \E w \in CandidateParams :
          /\ params' = w
          /\ result' = objective(w, docs, user_ings, style_hint)
    /\ op' = "_objective"
    /\ UNCHANGED <<ctx, optvars>>

Next == SuggestMenus \/ Score \/ Objective

Spec == Init /\ [][Next]_vars

(***************************************************************************)
(* Claims on ranking and objective evaluation (specification Spec)         *)
(***************************************************************************)
Ranked == op \in {"suggest_menus", "_objective"} /\ result.ok

\* C1: ranking is stable.  Whenever suggest_menus or the sort inside
\* _objective has produced its descending list, two documents with equal
\* computed scores stand in it in their input order (and the list is
\* descending in score).
C1_StableRanking ==
    Ranked =>
        /\ Len(result.ranked) = Len(docs)
        /\ \A p, q \in 1..Len(result.ranked) :
              p < q =>
                /\ result.key[result.ranked[p]] >= result.key[result.ranked[q]]
                /\ result.key[result.ranked[p]] = result.key[result.ranked[q]]
                      => result.ranked[p] < result.ranked[q]

\* C1 witness: a ranking of at least three documents that holds a tie between
\* two positions and a strict difference between two others.
C1_Witness ==
    /\ Ranked
    /\ Len(docs) >= 3
    /\ \E i, j \in 1..Len(docs) : i < j /\ result.key[i] = result.key[j]
    /\ \E i, j \in 1..Len(docs) : i < j /\ result.key[i] < result.key[j]

\* C2: for every candidate sequence of n documents the ranker returns exactly
\* min(5, n) entries, the first min(5, n) of the descending ordering, and the
\* empty list for n = 0, without failing.
C2_TopKOfEveryCandidateList ==
    op \in {"suggest_menus", "_objective"} =>
        /\ result.ok
        /\ Len(result.top) = Min(5, Len(docs))
        /\ \A p \in 1..Len(result.top) : result.top[p] = result.ranked[p]
        /\ Len(docs) = 0 => result.top = <<>>

\* C5: on a non-empty top-K list the three match rates lie in [0,1], and the
\* fitness is mean_views + 2000 ing + 1000 style + 500 level.
C5_MatchRatesAreFractions ==
    (op = "_objective" /\ result.ok /\ ~result.nan) =>
        /\ 0 <= result.ing_match.sum /\ result.ing_match.sum <= result.ing_match.n
        /\ 0 <= result.style_match.sum /\ result.style_match.sum <= result.style_match.n
        /\ 0 <= result.level_match.sum /\ result.level_match.sum <= result.level_match.n
        /\ result.val * result.views.n =
              0 - 60 * (result.views.sum + 2000 * result.ing_match.sum
                        + 1000 * result.style_match.sum + 500 * result.level_match.sum)

\* C8: on the empty candidate set the objective does not raise and yields a
\* defined, finite (sentinel minimal) fitness.
C8_EmptySetFitnessIsDefined ==
    (op = "_objective" /\ docs = <<>>) => (result.ok /\ ~result.nan)

\* C10: scoring and objective evaluation leave the operative weight vector and
\* the documents as they were.
C10_NoSideEffects == [][params' = params /\ docs' = docs]_vars

(***************************************************************************)
(* Feature extraction on malformed metadata (specification SpecExtract)    *)
(***************************************************************************)
\* what a metadata field may hold: absent, None, a valid or an invalid value
ViewsValues == {Missing, NoneV, IntV(0), IntV(500), StrV(<<"5", "0", "0">>),
                StrV(<<>>), StrV(Many)}
LevelValues == {Missing, NoneV, StrV(<<"cho", "geup">>), StrV(<<" ", "jung", "geup">>),
                IntV(3)}
TimeValues == {Missing, NoneV, StrV(Within(30)), StrV(Jeongbo \o <<" ", "eops", "eum">>),
               IntV(30)}

ExtractDocs ==
    {[page_content |-> c, metadata |-> [t |-> "dict", level |-> l, views |-> v,
                                        time |-> tm, method |-> Missing,
                                        situation |-> Missing, menu |-> Missing,
                                        title |-> Missing]] :
        c \in {StrV(Tofu)}, l \in LevelValues, v \in ViewsValues, tm \in TimeValues}

NoMetadataDocs == {[page_content |-> c, metadata |-> NoneV] : c \in {NoneV, StrV(Tofu)}}

InitExtract ==
    /\ \/ \E d \in ExtractDocs : docs = <<d>>
       \/ \E d \in NoMetadataDocs : docs = <<d>>
    /\ user_ings = <<Tofu>>
    /\ style_hint \in StyleHints
    /\ mins = <<>>
    /\ params = InitialParams
    /\ op = "none"
    /\ result = Raise("none")
    /\ OptimizerIdle

\* score_doc(docs[i], user_ings, style_hint)
ScoreDoc ==
    /\ \E i \in 1..Len(docs) :
          result' = score_doc(docs[i], user_ings, style_hint)
    /\ op' = "score_doc"
    /\ UNCHANGED <<ctx, params, optvars>>

NextExtract == ScoreDoc \/ Score

SpecExtract == InitExtract /\ [][NextExtract]_vars

\* a views field that is absent, None, or not the text of an integer
ViewsInvalid(doc) ==
    \/ doc.metadata.t = "None"
    \/ doc.metadata.views.t \in {"missing", "None"}
    \/ doc.metadata.views.t = "str" /\ ~PyInt(doc.metadata.views).ok

\* C3: score_doc and AutoRanker.score are total: on every document they
\* return a score, never an error, and an absent or invalid views counts as 0.
C3_ScoringIsTotal ==
    op \in {"score_doc", "score"} =>
        /\ result.ok
        /\ (op = "score_doc" /\ ViewsInvalid(docs[1])) => result.val.views = 0

(***************************************************************************)
(* The two-document scenario (specification SpecScenario)                  *)
(***************************************************************************)
ScenarioA == {Document(c, StrV(<<"cho", "geup">>), IntV(10000), StrV(Within(30)),
                       Missing, "A") :
                 c \in {Tofu, Tofu \o <<" ">> \o Onion, Rice \o <<" ">> \o Tofu}}
ScenarioB == {Document(c, StrV(Advanced), IntV(500), StrV(Within(120)), Missing, "B") :
                 c \in {Rice, Onion, <<>>}}

\* the largest weight tried, in halves
MaxWeight == 2

WeightGrid == [1..5 -> 0..MaxWeight]

InitScenario ==
    /\ \E a \in ScenarioA, b \in ScenarioB : docs \in {<<a, b>>, <<b, a>>}
    /\ user_ings = <<Tofu>>
    /\ style_hint = <<>>
    /\ mins = <<>>
    /\ params \in WeightGrid
    /\ op = "none"
    /\ result = Raise("none")
    /\ OptimizerIdle

\* docs.sort(key=lambda d: ranker.score(d, user_ings, style_hint), reverse=True)
\* with the loaded weights; the list is sorted in place and its first five shown.
\* result keeps each document's score and place by its position before the sort.
SortByScore ==
    /\ op' = "sort"
    /\ LET r == ranked_by_score(params, docs, user_ings, style_hint)
       IN /\ docs' = IF r.ok THEN [p \in 1..Len(docs) |-> docs[r.ranked[p]]] ELSE docs
          /\ result' = IF r.ok
                       THEN [ok |-> TRUE, key |-> r.key, ranked |-> r.ranked,
                             top |-> Prefix(r.ranked, TopK)]
                       ELSE r
    /\ UNCHANGED <<user_ings, style_hint, mins, params, optvars>>

NextScenario == SuggestMenus \/ SortByScore

SpecScenario == InitScenario /\ [][NextScenario]_vars

MenuAt(i) == docs[i].metadata.menu.v[1]

\* C4: document A scores strictly above document B and is ranked first, in
\* either input order, by score_doc and by AutoRanker.score under every
\* weight vector with no negative component and a positive ingredient weight.
C4_ABeatsB ==
    /\ op = "suggest_menus" =>
          /\ result.ok
          /\ MenuAt(result.ranked[1]) = "A" /\ MenuAt(result.ranked[2]) = "B"
          /\ result.key[result.ranked[1]] > result.key[result.ranked[2]]
          /\ result.top = result.ranked
    /\ (op = "sort" /\ params[1] > 0 /\ \A i \in 1..5 : params[i] >= 0) =>
          /\ result.ok
          /\ MenuAt(1) = "A" /\ MenuAt(2) = "B"
          /\ result.key[result.ranked[1]] > result.key[result.ranked[2]]
          /\ result.top = result.ranked

\* C4 witness: B came first from the retriever, the only weights are a small
\* ingredient weight and the largest time weight, and the sort put A first.
C4_Witness ==
    /\ op = "sort"
    /\ params = <<1, 0, 0, 0, MaxWeight>>
    /\ result.ok /\ result.ranked = <<2, 1>>
    /\ MenuAt(1) = "A"

(***************************************************************************)
(* Cook-time penalties (specification SpecTime)                            *)
(***************************************************************************)
\* the minutes of the data set's cook-time labels
MinuteLabels == {5, 10, 15, 20, 30, 60, 90, 120}

TimedDoc(m) == Document(Tofu, StrV(<<"cho", "geup">>), IntV(500), StrV(Within(m)),
                        Missing, "T")

InitTime ==
    /\ \E m1, m2 \in MinuteLabels :
          /\ docs = <<TimedDoc(m1), TimedDoc(m2)>>
          /\ mins = <<m1, m2>>
    /\ user_ings = <<Tofu>>
    /\ style_hint = <<>>
    /\ params = InitialParams
    /\ op = "none"
    /\ result = Raise("none")
    /\ OptimizerIdle

\* the time_penalty score_doc computes for each document
CookTimePenalty ==
    /\ op' = "time_penalty"
    /\ result' = [i \in 1..Len(docs) |->
                    LET r == score_doc(docs[i], user_ings, style_hint)
                    IN IF r.ok THEN Ok(time_penalty(r.val.cook_time)) ELSE r]
    /\ UNCHANGED <<ctx, params, optvars>>

\* the time_pen AutoRanker.score computes for each document
ParseTime ==
    /\ op' = "_parse_time"
    /\ result' = [i \in 1..Len(docs) |->
                    Ok(parse_time(Get(MetadataOrEmpty(docs[i]), "time", StrV(<<>>))))]
    /\ UNCHANGED <<ctx, params, optvars>>

NextTime == CookTimePenalty \/ ParseTime

SpecTime == InitTime /\ [][NextTime]_vars

\* C9: in both scoring variants the time penalty does not decrease with the
\* cook time in minutes, and a cook time of at most 30 minutes costs nothing.
C9_TimePenaltyMonotone ==
    op \in {"time_penalty", "_parse_time"} =>
        /\ \A i \in 1..2 : result[i].ok
        /\ mins[1] <= mins[2] => result[1].val <= result[2].val
        /\ \A i \in 1..2 : mins[i] <= 30 => result[i].val = 0

\* The same statement for score_doc's variant alone.
TimePenaltyMonotoneInScoreDoc ==
    op = "time_penalty" =>
        /\ \A i \in 1..2 : result[i].ok
        /\ mins[1] <= mins[2] => result[1].val <= result[2].val
        /\ \A i \in 1..2 : mins[i] <= 30 => result[i].val = 0

(***************************************************************************)
(* AutoRanker.fit (specification SpecFit)                                  *)
(*                                                                         *)
(* fit hands _objective, the bounds and maxiter = 40 to                    *)
(* scipy.optimize.differential_evolution and leaves every other option at  *)
(* its default: strategy best1bin, tol = 0.01, atol = 0, polish = True,    *)
(* updating = immediate.  The steps below are that routine's: sample a     *)
(* population inside the bounds, evaluate it, then per generation build    *)
(* one trial per member (mutation, crossover, resampling of components     *)
(* that left the bounds), keep the trial if it is no worse, and stop when  *)
(* std(energies) <= atol + tol * |mean(energies)| or after maxiter         *)
(* generations; then polish the best member and return it.                 *)
(*                                                                         *)
(* Weights live on the lattice of halves.  The random draws are choices:   *)
(* the initial sample alternates between the low corner of the bounds and  *)
(* the corner that differs from it along one axis, the mutation factor     *)
(* F in [0.5, 1) is 1/2 where that stays on the lattice or its limit 1,    *)
(* and a resampled component is an end of its interval.                    *)
(***************************************************************************)
\* bounds whose first interval is (0, 6) instead of (0, 5)
boundsWidened == << <<0, 12>>, <<0, 10>>, <<0, 4>>, <<0, 6>>, <<0, 6>> >>

\* bounds = [(0, 5), (0, 5), (0, 2), (0, 3), (0, 3)], in halves
bounds == << <<0, 10>>, <<0, 10>>, <<0, 4>>, <<0, 6>>, <<0, 6>> >>

\* a budget of one generation more
maxiterPlusOne == 40 + 1

\* maxiter=40
maxiter == 40

\* members of the population (scipy: popsize * 5 = 75)
PopSize == 3

NaN == [k |-> "nan", val |-> 0]
Inf == [k |-> "inf", val |-> 0]
\* the energy of a returned objective value (unused when the call raised)
Energy(r) == IF r.ok /\ ~r.nan THEN [k |-> "num", val |-> r.val] ELSE NaN

\* a <= b on floats: false as soon as one side is NaN
Leq(a, b) == a.k # "nan" /\ b.k # "nan" /\ (b.k = "inf" \/ (a.k = "num" /\ a.val <= b.val))
Less(a, b) == Leq(a, b) /\ ~Leq(b, a)

\* np.argmin: the first NaN if there is one, else the first least energy
ArgMin(e) ==
    LET nans == {i \in 1..Len(e) : e[i].k = "nan"}
        least == {i \in 1..Len(e) : \A j \in 1..Len(e) : Leq(e[i], e[j])}
        first(S) == CHOOSE a \in S : \A b \in S : a <= b
    IN IF nans # {} THEN first(nans) ELSE IF least # {} THEN first(least) ELSE 1

Swap(s, i, j) == [s EXCEPT ![i] = s[j], ![j] = s[i]]

Abs(n) == IF n < 0 THEN 0 - n ELSE n

RECURSIVE GCDNat(_, _)
GCDNat(a, b) == IF b = 0 THEN a ELSE GCDNat(b, a % b)
GCD(a, b) == GCDNat(Abs(a), Abs(b))

RECURSIVE GCDSeq(_)
GCDSeq(s) == IF s = <<>> THEN 0 ELSE GCD(Head(s), GCDSeq(Tail(s)))

\* std(e) <= 0.01 * |mean(e)|, false if an energy is NaN or infinite.  With
\* S = sum(e), N = len(e) and d[i] = N*e[i] - S it reads
\* 10000 * sum(d[i]^2) <= N * S^2; both sides are divided by the square of a
\* common divisor of S and all d[i] to keep the numbers small.
Converged(e) ==
    /\ \A i \in 1..Len(e) : e[i].k = "num"
    /\ LET N == Len(e)
           S == SumSeq([i \in 1..N |-> e[i].val])
           d == [i \in 1..N |-> N * e[i].val - S]
           g == GCD(S, GCDSeq(d))
       IN IF g = 0 THEN TRUE
          ELSE SumSeq([i \in 1..N |-> (d[i] \div g) * (d[i] \div g)])
                  <= (N * (S \div g) * (S \div g)) \div 10000

Lows == [i \in 1..5 |-> bounds[i][1]]

\* the initial sample along axis a: the members alternate between the low
\* corner of the bounds and the corner that differs from it on that axis
InitialSample(a) ==
    [i \in 1..PopSize |-> IF i % 2 = 1 THEN Lows ELSE [Lows EXCEPT ![a] = bounds[a][2]]]

\* F * diff for the mutation factor F
MutationSteps(diff) == {diff} \cup (IF diff % 2 = 0 THEN {diff \div 2} ELSE {})

\* the sets of components a trial takes from the mutant: at least one
CrossoverMasks == {1..5} \cup {{i} : i \in 1..5}

\* _ensure_constraint: a component outside its interval is drawn anew inside it
Resampled(i, raw) ==
    IF raw < bounds[i][1] \/ raw > bounds[i][2] THEN {bounds[i][1], bounds[i][2]}
    ELSE {raw}

\* what component i of the trial for member c may be
TrialComponent(pop, c, r0, r1, mask, i) ==
    IF i \in mask
    THEN UNION {Resampled(i, pop[1][i] + k) : k \in MutationSteps(pop[r0][i] - pop[r1][i])}
    ELSE {pop[c][i]}

\* the trials for member c: best + F * (pop[r0] - pop[r1]) crossed with the
\* member, r0 and r1 two other members
Trials(pop, c) ==
    UNION {
      LET comp == [i \in 1..5 |-> TrialComponent(pop, c, r[1], r[2], mask, i)]
      IN {t \in [1..5 -> UNION {comp[i] : i \in 1..5}] : \A i \in 1..5 : t[i] \in comp[i]} :
      r \in {q \in ((1..Len(pop)) \ {c}) \X ((1..Len(pop)) \ {c}) : q[1] # q[2]},
      mask \in CrossoverMasks}

\* the points L-BFGS-B evaluates around x0: x0 and, per component, a
\* finite-difference neighbour inside the bounds
PolishPoints(x0) ==
    {x0} \cup {[x0 EXCEPT ![i] = IF x0[i] < bounds[i][2] THEN x0[i] + 1 ELSE x0[i] - 1] :
                 i \in 1..5}

DocT == Document(Tofu, StrV(<<"cho", "geup">>), IntV(0), StrV(Within(30)), Missing, "T")

\* candidate lists fit is run on: none, two (every weight vector gives the
\* same top five), six (the weights decide which document is left out), and
\* one holding a document whose views is not a number
FitCandidateLists == {<<>>, <<DocA, DocB>>, <<DocB, DocA, DocA, DocA, DocA, DocT>>,
                      <<DocA, DocBad>>}

InitFit ==
    /\ docs \in FitCandidateLists
    /\ user_ings = <<Tofu>>
    /\ style_hint = <<>>
    /\ mins = <<>>
    /\ params = InitialParams
    /\ op = "none"
    /\ result = Raise("none")
    /\ OptimizerIdle

\* ranker.fit(docs, user_ings, style_hint) is called: the solver samples its
\* population inside the bounds
Fit ==
    /\ pc = "idle"
    /\ op' = "fit"
    /\ \E a \in 1..5 : population' = InitialSample(a)
    /\ population_energies' = [i \in 1..PopSize |-> Inf]
    /\ candidate' = 1
    /\ nit' = 0
    /\ pc' = "init"
    /\ UNCHANGED <<ctx, params, result, x>>

\* the solver evaluates member `candidate` of the initial population; after
\* the last one the lowest energy is moved to the front
EvaluateInitial ==
    /\ pc = "init"
    /\ \E w \in {population[candidate]} :
       \E r \in {objective(w, docs, user_ings, style_hint)} :
       \E e \in {[population_energies EXCEPT ![candidate] = Energy(r)]} :
          /\ x' = w
          /\ params' = w
          /\ IF ~r.ok
             THEN /\ pc' = "raised"
                  /\ result' = r
                  /\ UNCHANGED <<population, population_energies, candidate>>
             ELSE /\ result' = result
                  /\ IF candidate < PopSize
                     THEN /\ population_energies' = e
                          /\ candidate' = candidate + 1
                          /\ UNCHANGED <<population, pc>>
                     ELSE /\ population_energies' = Swap(e, 1, ArgMin(e))
                          /\ population' = Swap(population, 1, ArgMin(e))
                          /\ candidate' = 1
                          /\ pc' = "evolve"
    /\ UNCHANGED <<ctx, op, nit>>

\* one trial of a generation: build it for member `candidate`, evaluate it,
\* keep it if it is no worse, move it to the front if it is the best so far;
\* the last member's trial ends the generation
Evolve ==
    /\ pc = "evolve"
    /\ \E trial \in Trials(population, candidate) :
       \E r \in {objective(trial, docs, user_ings, style_hint)} :
         LET keep == Leq(Energy(r), population_energies[candidate])
             pop == IF keep THEN [population EXCEPT ![candidate] = trial] ELSE population
             e == IF keep THEN [population_energies EXCEPT ![candidate] = Energy(r)]
                  ELSE population_energies
             best == keep /\ Less(Energy(r), population_energies[1])
         IN /\ x' = trial
            /\ params' = trial
            /\ IF ~r.ok
               THEN /\ pc' = "raised"
                    /\ result' = r
                    /\ UNCHANGED <<population, population_energies, candidate, nit>>
               ELSE /\ result' = result
                    /\ population' = IF best THEN Swap(pop, 1, candidate) ELSE pop
                    /\ population_energies' = IF best THEN Swap(e, 1, candidate) ELSE e
                    /\ IF candidate < PopSize
                       THEN /\ candidate' = candidate + 1
                            /\ UNCHANGED <<pc, nit>>
                       ELSE /\ candidate' = 1
                            /\ nit' = nit + 1
                            /\ pc' = "generation"
    /\ UNCHANGED <<ctx, op>>

\* after a generation: stop if the energies have converged or maxiter
\* generations are done, else start the next one
EndGeneration ==
    /\ pc = "generation"
    /\ pc' = IF Converged(population_energies) \/ nit >= maxiter THEN "polish" ELSE "evolve"
    /\ UNCHANGED <<ctx, params, op, result, population, population_energies, nit,
                   candidate, x>>

\* polish: L-BFGS-B from the best member, inside the bounds; a strictly
\* better point replaces it
Polish ==
    /\ pc = "polish"
    /\ \E v \in PolishPoints(population[1]) :
       \E r \in {objective(v, docs, user_ings, style_hint)} :
         LET better == r.ok /\ Less(Energy(r), population_energies[1])
         IN /\ x' = v
            /\ params' = v
            /\ population' = IF better THEN [population EXCEPT ![1] = v] ELSE population
            /\ population_energies' =
                 IF better THEN [population_energies EXCEPT ![1] = Energy(r)]
                 ELSE population_energies
            /\ pc' = IF r.ok THEN "return" ELSE "raised"
            /\ result' = IF r.ok THEN result ELSE r
    /\ UNCHANGED <<ctx, op, nit, candidate>>

\* self.params = result.x; return self.params
Return ==
    /\ pc = "return"
    /\ params' = population[1]
    /\ result' = Ok(population[1])
    /\ pc' = "done"
    /\ UNCHANGED <<ctx, op, population, population_energies, nit, candidate, x>>

NextFit == Fit \/ EvaluateInitial \/ Evolve \/ EndGeneration \/ Polish \/ Return

SpecFit == InitFit /\ [][NextFit]_vars

(***************************************************************************)
(* Claims on fit (specification SpecFit)                                   *)
(***************************************************************************)
LoopLeft == pc \in {"polish", "return", "done"}

FullBudgetRun == pc = "done" /\ nit = 40
\* a run on six documents whose members' energies differ after a generation
MixedEnergies ==
    /\ pc = "evolve" /\ nit >= 1 /\ Len(docs) = 6
    /\ \E i \in 1..PopSize : population_energies[i] # population_energies[1]

\* the bounds the claim names, in halves: [(0,5),(0,5),(0,2),(0,3),(0,3)]
ClaimedLow == <<0, 0, 0, 0, 0>>
ClaimedHigh == <<10, 10, 4, 6, 6>>
WithinClaimed(w) ==
    Len(w) = 5 /\ \A i \in 1..5 : ClaimedLow[i] <= w[i] /\ w[i] <= ClaimedHigh[i]

\* C7: every weight vector the optimizer hands to the fitness function, every
\* member of its population in every generation, and the vector fit returns
\* lie within the configured bounds in every dimension.
C7_WithinBounds ==
    /\ x # <<>> => WithinClaimed(x)
    /\ \A i \in 1..Len(population) : WithinClaimed(population[i])
    /\ pc = "done" => (WithinClaimed(params) /\ result = Ok(params))

\* C7 witness: after several generations fit returned a vector that lies on
\* an upper bound.
C7_Witness ==
    /\ pc = "done" /\ nit > 1
    /\ \E i \in 1..5 : params[i] = ClaimedHigh[i]

====
